---- MODULE Spec2Model ----
(***************************************************************************)
(* documember: parse_module walks a live module object and builds a        *)
(* ModuleSummary tree; format_module_summary renders the tree as indented  *)
(* text lines.                                                             *)
(*                                                                         *)
(* A Python str is a sequence of one-character strings, so that            *)
(* str.startswith, str.split and string comparison are computed on the     *)
(* characters.  A rendered line is a sequence of tokens whose              *)
(* concatenation is the Python string: characters, the indent unit, the    *)
(* status suffixes and the lines of a docstring.                           *)
(***************************************************************************)
EXTENDS Integers, Sequences, FiniteSets, TLC

VARIABLES
    namespace,          \* vars(module) of every module object: name -> object
    dunder_all,         \* module.__all__ of every module object (or absent)
    ignore_all,         \* parse_module's keyword argument
    stack,              \* the activation records of parse_module, innermost last
    result,             \* the ModuleSummary returned by the outermost call
    pc,                 \* "start", "parsing", "parsed", "done", "RecursionError"
    docstring_detail,   \* format_module_summary's arguments
    include_imported,
    rejected,           \* name_check(s) is False exactly for the names in here
    lines               \* the lines format_module_summary yielded

vars == <<namespace, dunder_all, ignore_all, stack, result, pc,
          docstring_detail, include_imported, rejected, lines>>

\* The depth at which the interpreter's recursion limit stops parse_module.
MaxDepth == 3

-----------------------------------------------------------------------------
(* Python str operations *)

\* ord() of the characters that occur in names
Code == [c \in {".", "A", "B", "E", "N", "a", "b", "f", "g", "h", "k", "m",
                "n", "o", "p", "s", "t", "w", "x"} |->
          CASE c = "." -> 46 [] c = "A" -> 65 [] c = "B" -> 66 [] c = "E" -> 69
            [] c = "N" -> 78 [] c = "a" -> 97 [] c = "b" -> 98 [] c = "f" -> 102
            [] c = "g" -> 103 [] c = "h" -> 104 [] c = "k" -> 107
            [] c = "m" -> 109 [] c = "n" -> 110 [] c = "o" -> 111
            [] c = "p" -> 112 [] c = "s" -> 115 [] c = "t" -> 116 [] c = "w" -> 119
            [] c = "x" -> 120]

\* s.startswith(prefix)
StartsWith(s, prefix) ==
    /\ Len(prefix) <= Len(s)
    /\ SubSeq(s, 1, Len(prefix)) = prefix

\* s.split(".")[-1]
RECURSIVE LastComponent(_)
LastComponent(s) ==
    IF \E i \in 1..Len(s) : s[i] = "."
    THEN LastComponent(Tail(s))
    ELSE s

\* s < t on str
RECURSIVE StrLess(_, _)
StrLess(s, t) ==
    IF t = <<>> THEN FALSE
    ELSE IF s = <<>> THEN TRUE
    ELSE IF Head(s) = Head(t) THEN StrLess(Tail(s), Tail(t))
    ELSE Code[Head(s)] < Code[Head(t)]

\* k1 < k2 on the tuples (bool, bool, str) used as sorting keys
KeyLess(k1, k2) ==
    IF k1[1] # k2[1] THEN ~k1[1]
    ELSE IF k1[2] # k2[2] THEN ~k1[2]
    ELSE StrLess(k1[3], k2[3])

RECURSIVE Insert(_, _)
Insert(p, s) ==
    IF s = <<>> THEN <<p>>
    ELSE IF KeyLess(p.key, Head(s).key) THEN <<p>> \o s
    ELSE <<Head(s)>> \o Insert(p, Tail(s))

\* sorted(items, key=...): items are records [key, val]; the sort is stable
RECURSIVE Sorted(_)
Sorted(s) ==
    IF s = <<>> THEN <<>>
    ELSE Insert(s[Len(s)], Sorted(SubSeq(s, 1, Len(s) - 1)))

\* some enumeration of a finite set
RECURSIVE SetToSeq(_)
SetToSeq(S) ==
    IF S = {} THEN <<>>
    ELSE LET x == CHOOSE x \in S : TRUE IN <<x>> \o SetToSeq(S \ {x})

Range(s) == {s[i] : i \in 1..Len(s)}

-----------------------------------------------------------------------------
(* The object graph under inspection *)

\* a docstring: None, or a str given by its lines; a whitespace-only line is ""
DocNone == [none |-> TRUE, lines |-> <<>>]
DocStr(ls) == [none |-> FALSE, lines |-> ls]

\* inspect.cleandoc on the lines: leading and trailing blank lines go
RECURSIVE StripLeading(_)
StripLeading(ls) ==
    IF ls # <<>> /\ Head(ls) = "" THEN StripLeading(Tail(ls)) ELSE ls

RECURSIVE StripTrailing(_)
StripTrailing(ls) ==
    IF ls # <<>> /\ ls[Len(ls)] = ""
    THEN StripTrailing(SubSeq(ls, 1, Len(ls) - 1))
    ELSE ls

CleanDoc(ls) == StripTrailing(StripLeading(ls))

Modules == {"P", "S", "T", "X", "O"}
Classes == {"A", "B", "E", "N"}
Functions == {"f", "g", "h"}
Methods == {"Am", "An", "Aw", "Em", "Nm"}
Values == Modules \cup Classes \cup Functions

\* module.__name__
ModuleName ==
    [P |-> <<"p">>, S |-> <<"p", ".", "s">>, T |-> <<"p", ".", "t">>,
     X |-> <<"p", "x">>, O |-> <<"o">>]

\* module.__package__: P, S, X and O are packages, T is a plain module of P
ModulePackage ==
    [P |-> <<"p">>, S |-> <<"p", ".", "s">>, T |-> <<"p">>,
     X |-> <<"p", "x">>, O |-> <<"o">>]

\* x.__name__ of classes and functions
ObjName ==
    [A |-> <<"A">>, B |-> <<"B">>, E |-> <<"E">>, N |-> <<"N">>,
     f |-> <<"f">>, g |-> <<"g">>, h |-> <<"h">>]

\* inspect.getmodule(x) of classes and functions; "None" when there is none
GetModule ==
    [A |-> "P", B |-> "S", E |-> "O", N |-> "None",
     f |-> "P", g |-> "S", h |-> "O"]

\* x.__doc__
ObjDoc ==
    [P |-> DocStr(<<"", "d1", "d2", "">>), S |-> DocNone, X |-> DocStr(<<"d1">>),
     T |-> DocStr(<<>>), O |-> DocNone,
     A |-> DocNone, B |-> DocStr(<<"d1">>), E |-> DocNone, N |-> DocStr(<<>>),
     f |-> DocNone, g |-> DocStr(<<"d1", "d2">>), h |-> DocNone,
     \* methods
     Am |-> DocStr(<<"d1", "d2">>), An |-> DocNone, Aw |-> DocStr(<<"">>),
     Em |-> DocNone, Nm |-> DocStr(<<"d1">>)]


\* inspect.getdoc(x) for a method whose own __doc__ is None: the docstring
\* found along the class's MRO, None when there is none
InheritedDoc ==
    [Am |-> DocNone, An |-> DocStr(<<"d1">>), Aw |-> DocNone, Em |-> DocNone,
     Nm |-> DocNone]

\* cls.__annotations__, in definition order
ClassAnnotations ==
    [A |-> << <<"x">> >>, B |-> <<>>, E |-> << <<"x">> >>, N |-> <<>>]

\* vars(cls).items(); "attr" is a value that is not a function
ClassVars ==
    [A |-> {[name |-> <<"m">>, value |-> "Am"], [name |-> <<"n">>, value |-> "An"],
            [name |-> <<"w">>, value |-> "Aw"], [name |-> <<"x">>, value |-> "attr"]},
     B |-> {[name |-> <<"k">>, value |-> "attr"]},
     E |-> {[name |-> <<"m">>, value |-> "Em"]},
     N |-> {[name |-> <<"m">>, value |-> "Nm"]}]

\* inspect.getdoc(x): the cleaned docstring, None when there is none
GetDoc(x) ==
    LET own == ObjDoc[x]
        doc == IF own.none /\ x \in Methods THEN InheritedDoc[x] ELSE own
    IN  IF doc.none THEN DocNone ELSE DocStr(CleanDoc(doc.lines))

-----------------------------------------------------------------------------
(* parse_module *)

\* module.__all__: absent, or the list
NoAll == [none |-> TRUE, list |-> <<>>]
AllList(l) == [none |-> FALSE, list |-> l]

\* getattr(value, "__package__", "")
Package(value) == IF value \in Modules THEN ModulePackage[value] ELSE <<>>

\* a _get_module_members that forgets the export list
MemberNames_IgnoresAll(module, all_) == DOMAIN namespace[module]

\* lines 98-100 of _get_module_members
MemberNames(module, all_) ==
    IF all_.none THEN DOMAIN namespace[module]
    ELSE DOMAIN namespace[module] \cap Range(all_.list)

\* _get_module_members: the dict, as the sequence of its items
GetModuleMembers(module, all_) ==
    LET ns == namespace[module]
        names == MemberNames(module, all_)
        by_type(name) == <<FALSE, ns[name] \notin Modules, name>>
        listed == SetToSeq(names)
        items == [i \in 1..Len(listed) |->
                    [key |-> by_type(listed[i]),
                     val |-> [name |-> listed[i], value |-> ns[listed[i]]]]]
        sorted == Sorted(items)
    IN  [i \in 1..Len(sorted) |-> sorted[i].val]

\* parse_module up to the loop: the fresh ModuleSummary and the members
EnterModule(module, ignore_all_) ==
    LET all_ == dunder_all[module]
        doc == GetDoc(module)
    IN  [module |-> module,
         parsed |-> [name |-> LastComponent(ModuleName[module]),
                     qualname |-> ModuleName[module],
                     all |-> all_,
                     doc |-> IF doc.none THEN <<>> ELSE doc.lines,
                     submodules |-> <<>>,
                     classes |-> <<>>,
                     functions |-> <<>>],
         members |-> GetModuleMembers(module,
                        IF ignore_all_ THEN NoAll ELSE all_),
         i |-> 1]


top == stack[Len(stack)]
member == top.members[top.i]

\* the next iteration of the innermost activation's loop
Iterating ==
    /\ pc = "parsing"
    /\ top.i <= Len(top.members)

IsSubmodule(module, value) == StartsWith(Package(value), ModuleName[module])

Advance(frame) == [frame EXCEPT !.i = @ + 1]

ReplaceTop(frame) == [stack EXCEPT ![Len(stack)] = frame]

\* main calls parse_module on the module it imported
ParseModule ==
    /\ pc = "start"
    /\ \E ia \in BOOLEAN :
          /\ ignore_all' = ia
          /\ stack' = <<EnterModule("P", ia)>>
    /\ pc' = "parsing"
    /\ UNCHANGED <<namespace, dunder_all, result, docstring_detail,
                   include_imported, rejected, lines>>

\* line 70 holds: the recursive call
DiscoverSubmodule ==
    /\ Iterating
    /\ IsSubmodule(top.module, member.value)
    /\ Len(stack) < MaxDepth
    /\ stack' = Append(stack, EnterModule(member.value, ignore_all))
    /\ UNCHANGED <<namespace, dunder_all, ignore_all, result, pc,
                   docstring_detail, include_imported, rejected, lines>>

\* the recursive call with the interpreter's stack exhausted
RecursionLimit ==
    /\ Iterating
    /\ IsSubmodule(top.module, member.value)
    /\ Len(stack) >= MaxDepth
    /\ pc' = "RecursionError"
    /\ UNCHANGED <<namespace, dunder_all, ignore_all, stack, result,
                   docstring_detail, include_imported, rejected, lines>>

DiscoverClass ==
    /\ Iterating
    /\ ~IsSubmodule(top.module, member.value)
    /\ member.value \in Classes
    /\ stack' = ReplaceTop(Advance(
                    [top EXCEPT !.parsed.classes = Append(@, member.value)]))
    /\ UNCHANGED <<namespace, dunder_all, ignore_all, result, pc,
                   docstring_detail, include_imported, rejected, lines>>

DiscoverFunction ==
    /\ Iterating
    /\ ~IsSubmodule(top.module, member.value)
    /\ member.value \notin Classes
    /\ member.value \in Functions
    /\ stack' = ReplaceTop(Advance(
                    [top EXCEPT !.parsed.functions = Append(@, member.value)]))
    /\ UNCHANGED <<namespace, dunder_all, ignore_all, result, pc,
                   docstring_detail, include_imported, rejected, lines>>

\* a value that is no submodule, class or function is passed over
SkipMember ==
    /\ Iterating
    /\ ~IsSubmodule(top.module, member.value)
    /\ member.value \notin Classes
    /\ member.value \notin Functions
    /\ stack' = ReplaceTop(Advance(top))
    /\ UNCHANGED <<namespace, dunder_all, ignore_all, result, pc,
                   docstring_detail, include_imported, rejected, lines>>

\* return parsed, into the caller's parsed.submodules.append
ReturnSubmodule ==
    /\ pc = "parsing"
    /\ top.i > Len(top.members)
    /\ Len(stack) > 1
    /\ LET caller == stack[Len(stack) - 1]
       IN  stack' = Append(SubSeq(stack, 1, Len(stack) - 2),
                           Advance([caller EXCEPT !.parsed.submodules =
                                                    Append(@, top.parsed)]))
    /\ UNCHANGED <<namespace, dunder_all, ignore_all, result, pc,
                   docstring_detail, include_imported, rejected, lines>>

\* return parsed, to main
ReturnSummary ==
    /\ pc = "parsing"
    /\ top.i > Len(top.members)
    /\ Len(stack) = 1
    /\ result' = top.parsed
    /\ stack' = <<>>
    /\ pc' = "parsed"
    /\ UNCHANGED <<namespace, dunder_all, ignore_all, docstring_detail,
                   include_imported, rejected, lines>>

-----------------------------------------------------------------------------
(* format_module_summary *)

\* _INDENT
INDENT == "  "

Details == {"NONE", "ONE_LINE", "FULL"}

\* A yielded line: text is the str; the other fields record which yield made
\* it: kind is the statement, ent the object it names, owner the class whose
\* member it is, node the position in the summary tree of the module node
\* whose block it is in (the indexes into submodules from the root), names
\* the names of the entities it is nested in below the root module, its own
\* name last.
Line(text, kind, ent, owner, names) ==
    [text |-> text, kind |-> kind, ent |-> ent, owner |-> owner,
     node |-> <<>>, names |-> names]

\* yield _INDENT + line
Indent(ls) == [i \in 1..Len(ls) |-> [ls[i] EXCEPT !.text = <<INDENT>> \o @]]

\* the lines of the k-th submodule, named name, within its parent's lines
Under(k, name, ls) ==
    [i \in 1..Len(ls) |->
        [ls[i] EXCEPT !.node = <<k>> \o @, !.names = <<name>> \o @]]

\* the lines of the members of the class named name
InClass(name, ls) ==
    [i \in 1..Len(ls) |-> [ls[i] EXCEPT !.names = <<name>> \o @]]

RECURSIVE Concat(_)
Concat(ss) == IF ss = <<>> THEN <<>> ELSE Head(ss) \o Concat(Tail(ss))

\* name_check(s), for the callable that rejects the names in name_check
NameCheck(name_check, s) == s \notin name_check

\* getattr(inspect.getmodule(x), "__name__", "")
ModuleNameOf(x) ==
    IF GetModule[x] = "None" THEN <<>> ELSE ModuleName[GetModule[x]]

\* _all_status
AllStatus(module) == IF module.all.none THEN <<>> ELSE <<" (__all__)">>

\* an _is_documented that takes the empty docstring for documentation
IsDocumented_NoneOnly(doc) == ~doc.none

\* _is_documented, on the docstring line 155 or line 157 reads
IsDocumented(doc) == ~doc.none /\ doc.lines # <<>>

\* _documented_status
DocumentedStatus(doc) ==
    IF IsDocumented(doc) THEN <<>> ELSE <<" (undocumented)">>

\* _docstring_snippet, on the docstring or on what inspect.getdoc extracted
DocstringSnippet(doc, detail) ==
    IF detail = "NONE" THEN <<>>
    ELSE IF doc.none \/ doc.lines = <<>> THEN <<>>
    ELSE IF detail = "ONE_LINE" THEN <<doc.lines[1]>>
    ELSE doc.lines

\* the docstring lines as yielded lines
DocLines(snippet, kind, ent, owner, names) ==
    [i \in 1..Len(snippet) |-> Line(<<snippet[i]>>, kind, ent, owner, names)]

\* _format_class_members
FormatClassMembers(cls, docstring_detail_, name_check) ==
    LET annotations == ClassAnnotations[cls]
        items == SetToSeq(ClassVars[cls])
        by_type(item) == <<FALSE, item.value \notin Methods, item.name>>
        sorted == Sorted([i \in 1..Len(items) |->
                            [key |-> by_type(items[i]), val |-> items[i]]])
        Annotation(name) ==
            IF ~NameCheck(name_check, name) THEN <<>>
            ELSE <<Line(<<".">> \o name, "annotation", "attr", cls, <<name>>)>>
        Member(item) ==
            IF ~NameCheck(name_check, item.name) THEN <<>>
            ELSE IF item.value \in Methods
            THEN <<Line(item.name \o <<"()">> \o DocumentedStatus(ObjDoc[item.value]),
                        "method", item.value, cls, <<item.name>>)>>
                 \o Indent(DocLines(
                        DocstringSnippet(GetDoc(item.value), docstring_detail_),
                        "methoddoc", item.value, cls, <<item.name>>))
            ELSE <<Line(item.name, "attribute", "attr", cls, <<item.name>>)>>
    IN  Concat([i \in 1..Len(annotations) |-> Annotation(annotations[i])])
        \o Concat([i \in 1..Len(sorted) |-> Member(sorted[i].val)])

\* a _format_class_summary that expands a class of another module
FormatClassSummary_ForeignExpanded(module, cls, docstring_detail_, name_check) ==
    IF GetModule[cls] = "None"
    THEN <<Line(ObjName[cls], "class", cls, "", <<ObjName[cls]>>)>>
    ELSE <<Line(ObjName[cls] \o DocumentedStatus(ObjDoc[cls]),
                "class", cls, "", <<ObjName[cls]>>)>>
         \o Indent(InClass(ObjName[cls],
                FormatClassMembers(cls, docstring_detail_, name_check)))

\* a _format_class_summary without the return of line 254
FormatClassSummary_NoneExpanded(module, cls, docstring_detail_, name_check) ==
    IF GetModule[cls] # "None"
          /\ ~StartsWith(ModuleName[GetModule[cls]], module.qualname)
    THEN <<Line(ModuleName[GetModule[cls]] \o <<".">> \o ObjName[cls],
                "class", cls, "", <<ObjName[cls]>>)>>
    ELSE <<Line(IF GetModule[cls] = "None" THEN ObjName[cls]
                ELSE ObjName[cls] \o DocumentedStatus(ObjDoc[cls]),
                "class", cls, "", <<ObjName[cls]>>)>>
         \o Indent(InClass(ObjName[cls],
                FormatClassMembers(cls, docstring_detail_, name_check)))

\* _format_class_summary
FormatClassSummary(module, cls, docstring_detail_, name_check) ==
    LET cls_module == GetModule[cls]
    IN  IF cls_module = "None"
        THEN <<Line(ObjName[cls], "class", cls, "", <<ObjName[cls]>>)>>
        ELSE IF ~StartsWith(ModuleName[cls_module], module.qualname)
        THEN <<Line(ModuleName[cls_module] \o <<".">> \o ObjName[cls],
                    "class", cls, "", <<ObjName[cls]>>)>>
        ELSE <<Line(ObjName[cls] \o DocumentedStatus(ObjDoc[cls]),
                    "class", cls, "", <<ObjName[cls]>>)>>
             \o Indent(InClass(ObjName[cls],
                    FormatClassMembers(cls, docstring_detail_, name_check)))

\* lines 208-224 with the test of include_imported the wrong way round
FormatClass_FlagInverted(module, cls, docstring_detail_, include_imported_, name_check) ==
    IF ~NameCheck(name_check, ObjName[cls]) THEN <<>>
    ELSE IF ~StartsWith(ModuleNameOf(cls), module.qualname) /\ include_imported_
    THEN <<>>
    ELSE FormatClassSummary(module, cls, docstring_detail_, name_check)

\* lines 208-224 of _format_module_members, for one class
FormatClass(module, cls, docstring_detail_, include_imported_, name_check) ==
    IF ~NameCheck(name_check, ObjName[cls]) THEN <<>>
    ELSE IF ~StartsWith(ModuleNameOf(cls), module.qualname) /\ ~include_imported_
    THEN <<>>
    ELSE FormatClassSummary(module, cls, docstring_detail_, name_check)

\* lines 226-240 of _format_module_members, for one function
FormatFunction(module, func, docstring_detail_, include_imported_, name_check) ==
    IF ~NameCheck(name_check, ObjName[func]) THEN <<>>
    ELSE IF StartsWith(ModuleNameOf(func), module.qualname)
    THEN <<Line(ObjName[func] \o DocumentedStatus(ObjDoc[func]),
                "function", func, "", <<ObjName[func]>>)>>
         \o DocLines(DocstringSnippet(GetDoc(func), docstring_detail_),
                     "functiondoc", func, "", <<ObjName[func]>>)
    ELSE IF include_imported_
    THEN <<Line(ModuleNameOf(func) \o <<".">> \o ObjName[func],
                "function", func, "", <<ObjName[func]>>)>>
    ELSE <<>>

\* sorted(module.classes, key=by_class_location)
SortedClasses(module) ==
    LET by_class_location(cls) ==
            <<GetModule[cls] = "None",
              ~StartsWith(ModuleNameOf(cls), module.qualname),
              ObjName[cls]>>
        sorted == Sorted([i \in 1..Len(module.classes) |->
                            [key |-> by_class_location(module.classes[i]),
                             val |-> module.classes[i]]])
    IN  [i \in 1..Len(sorted) |-> sorted[i].val]

RECURSIVE FormatModuleSummary(_, _, _, _)
RECURSIVE FormatModuleMembers(_, _, _, _)

\* lines 186-196 without the name_check of line 187
FormatSubmodule_Unfiltered(module, k, docstring_detail_, include_imported_, name_check) ==
    Under(k, module.submodules[k].name,
          FormatModuleSummary(module.submodules[k], docstring_detail_,
                              include_imported_, name_check))

\* lines 186-196 of _format_module_members, for the k-th submodule
FormatSubmodule(module, k, docstring_detail_, include_imported_, name_check) ==
    LET submodule == module.submodules[k]
    IN  IF ~NameCheck(name_check, submodule.name) THEN <<>>
        ELSE Under(k, submodule.name,
                   FormatModuleSummary(submodule, docstring_detail_,
                                       include_imported_, name_check))

\* _format_module_members
FormatModuleMembers(module, docstring_detail_, include_imported_, name_check) ==
    LET classes == SortedClasses(module)
    IN  Concat([k \in 1..Len(module.submodules) |->
                  FormatSubmodule(module, k, docstring_detail_,
                                  include_imported_, name_check)])
        \o Concat([i \in 1..Len(classes) |->
                  FormatClass(module, classes[i], docstring_detail_,
                              include_imported_, name_check)])
        \o Concat([i \in 1..Len(module.functions) |->
                  FormatFunction(module, module.functions[i], docstring_detail_,
                                 include_imported_, name_check)])

\* format_module_summary
FormatModuleSummary(module, docstring_detail_, include_imported_, name_check) ==
    <<Line(module.name \o AllStatus(module)
               \o DocumentedStatus(DocStr(module.doc)),
           "module", "module", "", <<>>)>>
    \o Indent(DocLines(DocstringSnippet(DocStr(module.doc), docstring_detail_),
                       "moduledoc", "module", "", <<>>))
    \o Indent(FormatModuleMembers(module, docstring_detail_, include_imported_,
                                  name_check))

\* the names name_check can be asked about while formatting the tree
RECURSIVE NamesOf(_)
NamesOf(module) ==
    LET members == Range(module.classes) \cup Range(module.functions)
    IN  {ObjName[x] : x \in members}
        \cup UNION {Range(ClassAnnotations[c]) \cup {m.name : m \in ClassVars[c]} :
                      c \in Range(module.classes)}
        \cup {module.submodules[k].name : k \in 1..Len(module.submodules)}
        \cup UNION {NamesOf(module.submodules[k]) :
                      k \in 1..Len(module.submodules)}

\* main formats the summary; a name_check that rejects a name the formatter
\* never asks about behaves as the one that rejects nothing
Format ==
    /\ pc = "parsed"
    /\ \E d \in Details, inc \in BOOLEAN,
          rej \in {{}} \cup {{n} : n \in NamesOf(result)} :
          /\ docstring_detail' = d
          /\ include_imported' = inc
          /\ rejected' = rej
          /\ lines' = FormatModuleSummary(result, d, inc, rej)
    /\ pc' = "done"
    /\ UNCHANGED <<namespace, dunder_all, ignore_all, stack, result>>

-----------------------------------------------------------------------------
(* The module objects parse_module is given *)

BindNames == {<<"a">>, <<"b">>}

Namespaces(names) == UNION {[D -> Values] : D \in SUBSET names}

EmptyNamespace == [n \in {} |-> "O"]

Init ==
    /\ \E nsP \in Namespaces(BindNames),
          nsS \in Namespaces({<<"a">>}),
          allP \in {NoAll, AllList(<<>>), AllList(<< <<"a">> >>),
                    AllList(<< <<"b">> >>), AllList(<< <<"b">>, <<"a">> >>)},
          allS \in {NoAll, AllList(<<>>), AllList(<< <<"a">> >>)} :
          \* a module that P does not bind is never looked at
          /\ (\A n \in DOMAIN nsP : nsP[n] # "S") =>
                 nsS = EmptyNamespace /\ allS = NoAll
          /\ namespace = [P |-> nsP, S |-> nsS, T |-> EmptyNamespace,
                          X |-> [n \in {<<"a">>} |-> "h"], O |-> EmptyNamespace]
          /\ dunder_all = [P |-> allP, S |-> allS, T |-> AllList(<<>>),
                           X |-> NoAll, O |-> NoAll]
    /\ ignore_all = FALSE
    /\ stack = <<>>
    /\ result = <<>>
    /\ pc = "start"
    /\ docstring_detail = "NONE"
    /\ include_imported = FALSE
    /\ rejected = {}
    /\ lines = <<>>

Next ==
    \/ ParseModule
    \/ DiscoverSubmodule
    \/ RecursionLimit
    \/ DiscoverClass
    \/ DiscoverFunction
    \/ SkipMember
    \/ ReturnSubmodule
    \/ ReturnSummary
    \/ Format

Spec == Init /\ [][Next]_vars

-----------------------------------------------------------------------------
(* The summary tree and the yielded lines, as the properties speak of them *)

Built == pc \in {"parsed", "done"}

\* the nodes of a summary tree, each by its indexes into submodules
RECURSIVE NodePaths(_)
NodePaths(module) ==
    {<<>>} \cup UNION {{<<k>> \o v : v \in NodePaths(module.submodules[k])} :
                        k \in 1..Len(module.submodules)}

RECURSIVE NodeAt(_, _)
NodeAt(module, v) ==
    IF v = <<>> THEN module ELSE NodeAt(module.submodules[Head(v)], Tail(v))

Nodes == NodePaths(result)
Node(v) == NodeAt(result, v)

\* the module object a node summarizes
ModuleOf(node) == CHOOSE m \in Modules : ModuleName[m] = node.qualname

\* name_check accepts the name of every submodule on the way to the node
Rendered(v) == \A k \in 1..Len(v) : Node(SubSeq(v, 1, k)).name \notin rejected

Occurrences(seq, x) == Cardinality({i \in 1..Len(seq) : seq[i] = x})

Indents(n) == [i \in 1..n |-> INDENT]

RECURSIVE Depth(_)
Depth(text) ==
    IF text # <<>> /\ Head(text) = INDENT THEN 1 + Depth(Tail(text)) ELSE 0

Unindented(text) == SubSeq(text, Depth(text) + 1, Len(text))

SuffixCount(text) ==
    Cardinality({k \in 1..Len(text) : text[k] = " (undocumented)"})

ClassLines(v, c) ==
    {i \in 1..Len(lines) :
        lines[i].node = v /\ lines[i].kind = "class" /\ lines[i].ent = c}

MemberLines(v, c) ==
    {i \in 1..Len(lines) : lines[i].node = v /\ lines[i].owner = c}

\* the class is declared in a module outside the node's namespace
ForeignClass(c, node) ==
    /\ GetModule[c] # "None"
    /\ ~StartsWith(ModuleName[GetModule[c]], node.qualname)

\* the classes of rendered nodes that name_check accepts
Candidates(Kind(_, _)) ==
    {vc \in {<<v, c>> : v \in Nodes, c \in Classes} :
        /\ Rendered(vc[1])
        /\ vc[2] \in Range(Node(vc[1]).classes)
        /\ Kind(vc[2], Node(vc[1]))
        /\ ObjName[vc[2]] \notin rejected}

NoModule(c, node) == GetModule[c] = "None"

-----------------------------------------------------------------------------
(* C1 *)

Restricted(m) == ~ignore_all /\ ~dunder_all[m].none

VisibleNames(m) ==
    IF Restricted(m)
    THEN {n \in DOMAIN namespace[m] : n \in Range(dunder_all[m].list)}
    ELSE DOMAIN namespace[m]

BoundUnder(m, names, x) == \E n \in names : namespace[m][n] = x

-----------------------------------------------------------------------------
(* C2 *)

\* C2: no yielded line is for an entity whose name name_check rejects, or
\* for anything nested in such an entity: a rejected submodule's block, a
\* rejected class's members, a rejected function, method, attribute or
\* annotation (the root module's own name is not asked about).
C2_FilteringMonotonicity ==
    pc = "done" =>
      \A i \in 1..Len(lines) :
        \A k \in 1..Len(lines[i].names) : lines[i].names[k] \notin rejected

\* name_check rejects a submodule that has members of its own, or a class of
\* the root that has members, and other lines are yielded
C2_Witness ==
    /\ pc = "done"
    /\ Len(lines) > 1
    /\ \/ \E k \in 1..Len(result.submodules) :
             /\ result.submodules[k].name \in rejected
             /\ Len(result.submodules[k].classes)
                  + Len(result.submodules[k].functions) > 0
       \/ \E c \in Range(result.classes) :
             /\ ObjName[c] \in rejected
             /\ ~ForeignClass(c, result)
             /\ ClassVars[c] # {}

-----------------------------------------------------------------------------
(* C3 *)

\* the documentation text of the entity a name line is for
DocOfLine(l) ==
    IF l.kind = "module" THEN DocStr(Node(l.node).doc) ELSE ObjDoc[l.ent]

NoDocText(doc) == doc.none \/ doc.lines = <<>>

\* a class or function line of an entity declared in the node's namespace
NativeLine(l) ==
    /\ GetModule[l.ent] # "None"
    /\ StartsWith(ModuleName[GetModule[l.ent]], Node(l.node).qualname)

\* C3 as claimed: every module, class, function and method line carries the
\* suffix " (undocumented)" once when the entity has no documentation text
\* and not at all when it has.
C3_Original ==
    pc = "done" =>
      \A i \in 1..Len(lines) :
        lines[i].kind \in {"module", "class", "function", "method"}
          => SuffixCount(lines[i].text)
               = IF NoDocText(DocOfLine(lines[i])) THEN 1 ELSE 0

\* C3 amended: the line of a module node, of a method, and of a class or
\* function declared in the summarized module's namespace carries the suffix
\* once when the entity has no documentation text and not at all when it
\* has; the leaf line of a class or function declared elsewhere, or of a
\* class with no declaring module, never carries it.
C3_UndocumentedSuffix ==
    pc = "done" =>
      \A i \in 1..Len(lines) :
        LET l == lines[i]
        IN  /\ (l.kind \in {"module", "method"}
                  \/ (l.kind \in {"class", "function"} /\ NativeLine(l)))
                 => SuffixCount(l.text)
                      = IF NoDocText(DocOfLine(l)) THEN 1 ELSE 0
            /\ (l.kind \in {"class", "function"} /\ ~NativeLine(l))
                 => SuffixCount(l.text) = 0
            /\ l.kind \notin {"module", "class", "function", "method"}
                 => SuffixCount(l.text) = 0

\* lines are yielded for an undocumented class of the module, for a
\* documented one, and for an undocumented class of another module
C3_Witness ==
    /\ pc = "done"
    /\ \E i, j \in 1..Len(lines) :
          /\ lines[i].kind \in {"class", "function"}
          /\ NativeLine(lines[i])
          /\ NoDocText(ObjDoc[lines[i].ent])
          /\ lines[j].kind \in {"class", "function"}
          /\ ~NativeLine(lines[j])
          /\ NoDocText(ObjDoc[lines[j].ent])
    /\ \E i \in 1..Len(lines) :
          /\ lines[i].kind \in {"module", "class", "function", "method"}
          /\ ~NoDocText(DocOfLine(lines[i]))

-----------------------------------------------------------------------------
(* C4 *)

\* C4: for every entry of a rendered node's classes that is a class of a
\* module outside the node's namespace and whose name name_check accepts:
\* without include_imported no line is yielded for it; with include_imported
\* one line per entry is yielded, "<declaring module>.<class name>" at the
\* indentation of the node's members; either way no annotation, method or
\* attribute line is yielded for it.
C4_ForeignClassScenario ==
    pc = "done" =>
      \A vc \in Candidates(ForeignClass) :
        LET v == vc[1]
            c == vc[2]
        IN  /\ ~include_imported => ClassLines(v, c) = {}
            /\ include_imported =>
                  /\ Cardinality(ClassLines(v, c))
                       = Occurrences(Node(v).classes, c)
                  /\ \A i \in ClassLines(v, c) :
                        lines[i].text
                          = Indents(Len(v) + 1) \o ModuleName[GetModule[c]]
                              \o <<".">> \o ObjName[c]
            /\ MemberLines(v, c) = {}

\* the root binds the class E of module o, which has an annotation and a
\* method, and it is formatted with include_imported
C4_Witness ==
    /\ pc = "done"
    /\ include_imported
    /\ <<<<>>, "E">> \in Candidates(ForeignClass)
    /\ ClassLines(<<>>, "E") # {}
    /\ \A m \in ClassVars["E"] : m.name \notin rejected

-----------------------------------------------------------------------------
(* C5 *)

\* C5 as claimed: a class declared outside the node's namespace gets a leaf
\* line without include_imported, and with include_imported its own line
\* followed by a line for each of its annotations, methods and attributes
\* that name_check accepts.
C5_Original ==
    pc = "done" =>
      \A vc \in Candidates(ForeignClass) :
        LET v == vc[1]
            c == vc[2]
        IN  /\ ClassLines(v, c) # {}
            /\ ~include_imported => MemberLines(v, c) = {}
            /\ include_imported =>
                  \A name \in Range(ClassAnnotations[c])
                              \cup {m.name : m \in ClassVars[c]} :
                      name \notin rejected
                        => \E i \in MemberLines(v, c) :
                              lines[i].names[Len(lines[i].names)] = name

\* C5 amended: a class declared outside the node's namespace whose name
\* name_check accepts gets no line without include_imported; with
\* include_imported it gets a leaf line with its dotted name
\* "<declaring module>.<class name>", and the line after it, if any, is not
\* nested in it: the class is never expanded.
C5_ForeignClassContract ==
    pc = "done" =>
      /\ \A i \in 1..Len(lines) :
            (lines[i].kind = "class"
               /\ ForeignClass(lines[i].ent, Node(lines[i].node)))
              => /\ include_imported
                 /\ Unindented(lines[i].text)
                      = ModuleName[GetModule[lines[i].ent]] \o <<".">>
                          \o ObjName[lines[i].ent]
                 /\ i < Len(lines)
                      => Depth(lines[i + 1].text) <= Depth(lines[i].text)
      /\ \A vc \in Candidates(ForeignClass) :
            include_imported <=> ClassLines(vc[1], vc[2]) # {}

\* a submodule binds the class A of its parent, foreign to the submodule and
\* with members, and it is formatted with include_imported
C5_Witness ==
    /\ pc = "done"
    /\ include_imported
    /\ \E v \in Nodes :
          /\ Len(v) = 1
          /\ <<v, "A">> \in Candidates(ForeignClass)
          /\ ClassLines(v, "A") # {}
          /\ \E i \in ClassLines(v, "A") : i < Len(lines)

-----------------------------------------------------------------------------
(* C6 *)

\* C6 as claimed: a class with no declaring module whose name name_check
\* accepts gets one leaf line per entry, with or without include_imported.
C6_Original ==
    pc = "done" =>
      \A vc \in Candidates(NoModule) :
        LET v == vc[1]
            c == vc[2]
        IN  /\ Cardinality(ClassLines(v, c)) = Occurrences(Node(v).classes, c)
            /\ MemberLines(v, c) = {}

\* C6 amended: a class with no declaring module whose name name_check
\* accepts gets, with include_imported, one leaf line per entry, its bare
\* name, and no member lines; without include_imported it gets no line.
C6_NoModuleClass ==
    pc = "done" =>
      \A vc \in Candidates(NoModule) :
        LET v == vc[1]
            c == vc[2]
        IN  /\ include_imported =>
                  /\ Cardinality(ClassLines(v, c))
                       = Occurrences(Node(v).classes, c)
                  /\ \A i \in ClassLines(v, c) :
                        lines[i].text = Indents(Len(v) + 1) \o ObjName[c]
            /\ ~include_imported => ClassLines(v, c) = {}
            /\ MemberLines(v, c) = {}

\* the root binds the class N, which has no declaring module and has a
\* method, and it is formatted with include_imported
C6_Witness ==
    /\ pc = "done"
    /\ include_imported
    /\ <<<<>>, "N">> \in Candidates(NoModule)
    /\ ClassLines(<<>>, "N") # {}
    /\ \A m \in ClassVars["N"] : m.name \notin rejected

-----------------------------------------------------------------------------
(* C7 *)

\* C7 as claimed: parse_module never recurses into a module that is already
\* on its recursion path, and no call ends in the interpreter's recursion
\* limit instead of returning a summary.
C7_AcyclicTraversal ==
    /\ \A i, j \in 1..Len(stack) :
          i # j => stack[i].module # stack[j].module
    /\ pc # "RecursionError"

-----------------------------------------------------------------------------
(* C8 *)

\* C8 as claimed: in every node of the summary, classes and functions hold
\* each object at most once.
C8_NoDuplicateMembers ==
    Built =>
      \A v \in Nodes :
        /\ \A c \in Range(Node(v).classes) :
              Occurrences(Node(v).classes, c) = 1
        /\ \A f \in Range(Node(v).functions) :
              Occurrences(Node(v).functions, f) = 1

-----------------------------------------------------------------------------
(* C9 *)

\* C9 as claimed: the qualname of every node in a submodules list starts
\* with its parent's qualname followed by ".".
C9_QualnameNesting ==
    Built =>
      \A v \in Nodes :
        \A k \in 1..Len(Node(v).submodules) :
          StartsWith(Node(v).submodules[k].qualname,
                     Node(v).qualname \o <<".">>)

-----------------------------------------------------------------------------
(* C10 *)

DocKinds == {"moduledoc", "methoddoc", "functiondoc"}

NameKind ==
    [moduledoc |-> "module", methoddoc |-> "method", functiondoc |-> "function"]

SameEntity(a, b) ==
    /\ a.node = b.node
    /\ a.ent = b.ent
    /\ a.owner = b.owner
    /\ a.names = b.names

\* C10 as claimed: under NONE no docstring line is yielded; under ONE_LINE
\* and FULL the docstring lines of a module node, method or function follow
\* the entity's name line with nothing in between, one indent unit deeper
\* than the name line.
C10_DocstringPlacement ==
    pc = "done" =>
      /\ docstring_detail = "NONE"
           => \A i \in 1..Len(lines) : lines[i].kind \notin DocKinds
      /\ \A i \in 1..Len(lines) :
            lines[i].kind \in DocKinds =>
              \E j \in 1..(i - 1) :
                /\ lines[j].kind = NameKind[lines[i].kind]
                /\ \A k \in j..i : SameEntity(lines[k], lines[i])
                /\ \A k \in (j + 1)..i : lines[k].kind = lines[i].kind
                /\ Depth(lines[i].text) = Depth(lines[j].text) + 1

====
